---- MODULE Spec2Model ----
(***************************************************************************)
(* Model of the trade-route engine of SpacePyTraders (SpacePyTraders/      *)
(* routes.py): the Bellman-Ford solver over a dict-of-dicts graph and the  *)
(* round-trip assembler potential_routes built on it.                      *)
(*                                                                         *)
(* A graph is the Python dict {tail: {head: weight}} with its insertion    *)
(* order kept: a sequence of <<tail, items>> entries, items a sequence of  *)
(* <<head, weight>> pairs.  Iterating graph.keys() and graph[tail].items() *)
(* is walking these sequences from the front.  The graph is built one edge *)
(* at a time (AddEdge), so every insertion order of up to MaxEdges edges   *)
(* is reached; then one call is made on it.                                *)
(*                                                                         *)
(* The market side of get_best_route is modelled the same way: a DataFrame *)
(* is the sequence of its rows.  get_current_market is called on an        *)
(* observation table of up to MaxObs rows (AddObservation), and all_trades,*)
(* best_trades and prepare_data_for_algorithm on a snapshot of up to       *)
(* MaxQuotes rows (AddQuote).  A float64 ctv is an exact fraction, inf,    *)
(* -inf or nan; a Decimal weight is sign * ln(num / den) or sign *         *)
(* Infinity.                                                               *)
(***************************************************************************)
EXTENDS Integers, Sequences, FiniteSets, TLC

\* ------------------------------------------------------------------ bounds

\* The location symbols of the model.
Locs == {"A", "B", "C"}

\* The locations in sorted order.
LocOrder == <<"A", "B", "C">>

\* The edge weights a graph of the model may carry.
Weights == {-1, 2}

\* The largest number of edges of a graph of the model.
MaxEdges == 3

\* The locations and goods of the market tables of the model, the goods in
\* the order groupby sorts them.
Locations == {"A", "B"}

GoodOrder == <<"FUEL", "METALS">>

\* The time column as it is stored, before pd.to_datetime.
RawTimes == {"2021-03-14 23:00:00", "2021-03-15 01:00:00", "2021-03-15 02:00:00"}

\* The largest number of locations of a route handed to create_route_guide.
MaxRoute == 2

\* The largest number of rows of an observation table of the model.
MaxObs == 3

\* The quotes of a snapshot row: unit volume, purchase price, sell price.
Quotes ==
    { [volumePerUnit |-> 1, purchasePricePerUnit |-> 10,  sellPricePerUnit |-> 69],
      [volumePerUnit |-> 1, purchasePricePerUnit |-> 10,  sellPricePerUnit |-> 130],
      [volumePerUnit |-> 2, purchasePricePerUnit |-> 100, sellPricePerUnit |-> 10],
      [volumePerUnit |-> 0, purchasePricePerUnit |-> 10,  sellPricePerUnit |-> 10],
      [volumePerUnit |-> 0, purchasePricePerUnit |-> 100, sellPricePerUnit |-> 69] }

\* Where the locations lie: A and C at one place, B at rounded distance 3.
Coordinates == [l \in Locs |-> IF l = "B" THEN [x |-> 1, y |-> 3] ELSE [x |-> 0, y |-> 0]]

\* ship.speed
Speeds == {1, 3, 4}

\* The largest number of rows of a snapshot of the model.
MaxQuotes == 3

\* The most generate_token calls made on one Api.
MaxClaims == 2

\* The most legs of a route handed to am_i_on_best_route.
MaxLegs == 2

VARIABLES
    graph,          \* the RouteGraph handed to the solver / assembler
    op,             \* "idle" | "solver" | "routes": the call that was made
    start,          \* solver argument
    end,            \* solver argument
    locs,           \* potential_routes argument
    solved,         \* outcome of shortest_path_bellman_ford
    routed,         \* outcome of potential_routes
    best,           \* outcome of get_best_route's choice among the routes, or
                    \* the route handed to create_route_guide
    guide,          \* outcome of create_route_guide on the chosen route
    market_db,      \* the observation table handed to get_current_market
    snapshot,       \* outcome of get_current_market
    current_market, \* the snapshot handed to all_trades
    ship,           \* the speed of the ship handed to all_trades
    traded,         \* outcome of all_trades
    bt,             \* outcome of best_trades
    prepared,       \* outcome of prepare_data_for_algorithm
    raw_res,        \* generic_api_call argument
    throttle_time,  \* generic_api_call argument
    tries,          \* generic_api_call's loop index i: the tries begun
    responses,      \* what make_request gave to the call, try by try
    log,            \* the records the call has logged
    slept,          \* the time.sleep calls of the call, in seconds
    returned,       \* outcome of generic_api_call
    api,            \* the Api object: its token, username and sub-clients
    claims,         \* what make_request gave to the generate_token calls
    generated,      \* outcome of the last Api.generate_token
    on_route        \* am_i_on_best_route's two arguments and what it returned

routeVars == <<graph, start, end, locs, solved, routed, best, guide>>

snapshotVars == <<market_db, snapshot>>

tradeVars == <<current_market, ship, traded, bt, prepared>>

clientVars == <<raw_res, throttle_time, tries, responses, log, slept, returned>>

apiVars == <<api, claims, generated>>

serviceVars == <<clientVars, apiVars, on_route>>

vars == <<op, routeVars, snapshotVars, tradeVars, serviceVars>>

\* ------------------------------------------------------- sequence helpers

Last(walk) == walk[Len(walk)]

RECURSIVE SeqSum(_)
SeqSum(s) == IF s = <<>> THEN 0 ELSE Head(s) + SeqSum(Tail(s))

Reverse(s) == [i \in 1..Len(s) |-> s[Len(s) + 1 - i]]

Range(s) == {s[i] : i \in 1..Len(s)}

\* Op applied to the value of x, x being evaluated once however often Op uses
\* its argument.
Bind(x, Op(_)) == CHOOSE y \in { Op(v) : v \in {x} } : TRUE

\* Python's s[k:] with k counted from 0.
SliceFrom(s, k) == SubSeq(s, k + 1, Len(s))

\* Python's list.index: the first position (from 1) holding x.
IndexOf(s, x) == CHOOSE i \in 1..Len(s) : s[i] = x /\ \A j \in 1..(i - 1) : s[j] # x

\* ------------------------------------------------------------ dict access

\* tail in graph
HasKey(g, tail) == \E i \in 1..Len(g) : g[i][1] = tail

\* graph[tail].items()
Items(g, tail) == g[CHOOSE i \in 1..Len(g) : g[i][1] = tail][2]

\* graph[tail].keys()
Heads(items) == {items[i][1] : i \in 1..Len(items)}

all_vertices(g) ==
    {g[i][1] : i \in 1..Len(g)} \cup UNION {Heads(g[i][2]) : i \in 1..Len(g)}

is_edge(g, tail, head) == HasKey(g, tail) /\ head \in Heads(Items(g, tail))

\* graph[tail][head], for an edge of the graph
EdgeWeight(g, tail, head) ==
    LET items == Items(g, tail)
    IN  items[CHOOSE i \in 1..Len(items) : items[i][1] = head][2]

\* ---------------------------------------------------------------- solver

is_dist_infinite(dist, v) == v \notin DOMAIN dist

\* The outcome of a call: a normal return or the exception raised.
Returned(weight, path) == [kind |-> "return", weight |-> weight, path |-> path]
Raised(exc) == [kind |-> exc, weight |-> 0, path |-> <<>>]
RaisedNegativeCycle(weight, cycle) ==
    [kind |-> "NegativeCycleError", weight |-> weight, path |-> cycle]

\* walk_pred(start, end): follows pred from its first argument until it meets
\* the second.  `path` is the list built so far, v its last element.  A missing
\* pred[v] is a KeyError; a vertex met twice before the target means the loop
\* never ends.
RECURSIVE walk_pred_loop(_, _, _, _)
walk_pred_loop(pred, path, v, target) ==
    IF v = target THEN [kind |-> "ok", path |-> Reverse(path)]
    ELSE IF v \notin DOMAIN pred THEN [kind |-> "KeyError", path |-> path]
    ELSE IF pred[v] # target /\ pred[v] \in Range(path)
         THEN [kind |-> "diverges", path |-> path]
    ELSE walk_pred_loop(pred, Append(path, pred[v]), pred[v], target)

\* Mutant of walk_pred: path.reverse() left out.
walk_pred_NoReverse(pred, from, target) ==
    Bind(walk_pred_loop(pred, <<from>>, from, target),
         LAMBDA r : [r EXCEPT !.path = Reverse(@)])

walk_pred(pred, from, target) == walk_pred_loop(pred, <<from>>, from, target)

\* find_cycle(start): None is modelled as the empty sequence.
RECURSIVE find_cycle_loop(_, _, _)
find_cycle_loop(pred, nodes, node) ==
    IF node \in Range(nodes)
    THEN <<node>> \o Reverse(SliceFrom(nodes, IndexOf(nodes, node) - 1))
    ELSE IF node \notin DOMAIN pred THEN <<>>
    ELSE find_cycle_loop(pred, Append(nodes, node), pred[node])

\* Mutant of find_cycle: the cycle without its repeated first node.
find_cycle_Open(pred, from) ==
    Bind(find_cycle_loop(pred, <<>>, from),
         LAMBDA c : IF c = <<>> THEN c ELSE Tail(c))

find_cycle(pred, from) == find_cycle_loop(pred, <<>>, from)

\* find_cycle's list `nodes` when its loop ends: a node for every pass of the
\* loop that did not find its node in the list.
RECURSIVE find_cycle_nodes(_, _, _)
find_cycle_nodes(pred, nodes, node) ==
    IF node \in Range(nodes) THEN nodes
    ELSE IF node \notin DOMAIN pred THEN Append(nodes, node)
    ELSE find_cycle_nodes(pred, Append(nodes, node), pred[node])

\* The body of the innermost relaxation loop, for one (head, weight) item.
RelaxHead(st, tail, head, weight) ==
    LET alt == st.dist[tail] + weight
    IN  IF is_dist_infinite(st.dist, head) \/ alt < st.dist[head]
        THEN [dist |-> (head :> alt) @@ st.dist, pred |-> (head :> tail) @@ st.pred]
        ELSE st

\* for head, weight in graph[tail].items()
RECURSIVE RelaxItems(_, _, _, _)
RelaxItems(st, tail, items, i) ==
    IF i > Len(items) THEN st
    ELSE Bind(RelaxHead(st, tail, items[i][1], items[i][2]),
              LAMBDA s : RelaxItems(s, tail, items, i + 1))

\* for tail in graph.keys()
RECURSIVE RelaxTails(_, _, _)
RelaxTails(st, g, k) ==
    IF k > Len(g) THEN st
    ELSE Bind(IF is_dist_infinite(st.dist, g[k][1]) THEN st
              ELSE RelaxItems(st, g[k][1], g[k][2], 1),
              LAMBDA s : RelaxTails(s, g, k + 1))

\* for _ in range(n - 1)
RECURSIVE RelaxPasses(_, _, _)
RelaxPasses(st, g, passes) ==
    IF passes <= 0 THEN st
    ELSE Bind(RelaxTails(st, g, 1), LAMBDA s : RelaxPasses(s, g, passes - 1))

NoHit == [kind |-> "none", tail |-> ""]

\* The detection scan: the first edge, in iteration order, that can still be
\* relaxed.  dist[head] of a vertex without a distance is a KeyError.
RECURSIVE ScanItems(_, _, _, _)
ScanItems(st, tail, items, i) ==
    IF i > Len(items) THEN NoHit
    ELSE IF tail \notin DOMAIN st.dist THEN ScanItems(st, tail, items, i + 1)
    ELSE IF items[i][1] \notin DOMAIN st.dist THEN [kind |-> "KeyError", tail |-> tail]
    ELSE IF st.dist[tail] + items[i][2] < st.dist[items[i][1]]
         THEN [kind |-> "relaxable", tail |-> tail]
    ELSE ScanItems(st, tail, items, i + 1)

RECURSIVE ScanTails(_, _, _)
ScanTails(st, g, k) ==
    IF k > Len(g) THEN NoHit
    ELSE Bind(ScanItems(st, g[k][1], g[k][2], 1),
              LAMBDA hit : IF hit.kind # "none" THEN hit ELSE ScanTails(st, g, k + 1))

\* Every consecutive pair of the walk is an edge of the graph.
IsWalk(g, walk) == \A i \in 1..(Len(walk) - 1) : is_edge(g, walk[i], walk[i + 1])

\* sum(graph[c_tail][c_head] for (c_tail, c_head) in zip(cycle, cycle[1:]))
WalkWeight(g, walk) ==
    SeqSum([i \in 1..(Len(walk) - 1) |-> EdgeWeight(g, walk[i], walk[i + 1])])

\* Mutant of Relaxed: one relaxation pass too few, range(n - 2).
Relaxed_OnePassShort(g, from) ==
    RelaxPasses([dist |-> (from :> 0), pred |-> <<>>], g,
                Cardinality(all_vertices(g)) - 2)

\* Mutant of Relaxed: every vertex starts at distance 0, not start alone.
Relaxed_FromEverywhere(g, from) ==
    RelaxPasses([dist |-> [v \in all_vertices(g) \cup {from} |-> 0], pred |-> <<>>], g,
                Cardinality(all_vertices(g)) - 1)

\* dist and pred after `dist[start] = 0` and the n-1 relaxation passes.
Relaxed(g, from) ==
    RelaxPasses([dist |-> (from :> 0), pred |-> <<>>], g,
                Cardinality(all_vertices(g)) - 1)

\* Mutant of NegativeCycleCheck: the scan left out.
NegativeCycleCheck_Skipped(g, st) == Raised("")

\* The check for negative cycles, on the relaxed dist and pred.
NegativeCycleCheck(g, st) ==
    Bind(ScanTails(st, g, 1), LAMBDA hit :
        IF hit.kind = "KeyError" THEN Raised("KeyError")
        ELSE IF hit.kind = "none" THEN Raised("")
        ELSE Bind(find_cycle(st.pred, hit.tail), LAMBDA cycle :
                IF cycle = <<>> THEN Raised("TypeError")
                ELSE IF ~IsWalk(g, cycle) THEN Raised("KeyError")
                ELSE RaisedNegativeCycle(WalkWeight(g, cycle), cycle)))

\* Mutant of BuildShortestPath: the reachability test made on start, not end.
BuildShortestPath_TestsStart(st, from, to) ==
    IF is_dist_infinite(st.dist, from) THEN Raised("NoShortestPathError")
    ELSE Bind(walk_pred(st.pred, to, from), LAMBDA walk :
            IF walk.kind = "ok" THEN Returned(st.dist[to], walk.path)
            ELSE Raised(walk.kind))

\* The last lines: the NoShortestPathError test and the path built from pred.
BuildShortestPath(st, from, to) ==
    IF is_dist_infinite(st.dist, to) THEN Raised("NoShortestPathError")
    ELSE Bind(walk_pred(st.pred, to, from), LAMBDA walk :
            IF walk.kind = "ok" THEN Returned(st.dist[to], walk.path)
            ELSE Raised(walk.kind))

shortest_path_bellman_ford(g, from, to) ==
    Bind(Relaxed(g, from), LAMBDA st :
        Bind(NegativeCycleCheck(g, st), LAMBDA raised :
            IF raised.kind # "" THEN raised ELSE BuildShortestPath(st, from, to)))

\* ------------------------------------------------------- route assembler

\* `except NoShortestPathError` catches the class and its subclasses:
\* NegativeCycleError(NoShortestPathError).
NoShortestPathErrorClasses == {"NoShortestPathError", "NegativeCycleError"}

RECURSIVE Gcd(_, _)
Gcd(a, b) == IF b = 0 THEN a ELSE Gcd(b, a % b)

Abs(x) == IF x < 0 THEN -x ELSE x

\* weight / len(route): the quotient as a fraction in lowest terms.  Python's
\* quotients of two pairs of small integers are equal exactly when the
\* fractions are, and two fractions are equal exactly when these records are.
Quotient(weight, len) ==
    LET d == Gcd(Abs(weight), len)
    IN  [num |-> weight \div d, den |-> len \div d]

\* The state of one `for ...: try: xs.append(solver(...)) except ...: print(...)`
\* loop: the list built, what was printed, the solver calls made, and the
\* exception (if any) that left the loop uncaught.
EmptyLoop == [exc |-> "", list |-> <<>>, printed |-> <<>>, calls |-> <<>>]

\* One iteration: the solver call, the append, the handler.  `named` is the
\* location the handler prints.
TryAppend(acc, g, from, to, named) ==
    IF acc.exc # "" THEN acc
    ELSE Bind(shortest_path_bellman_ford(g, from, to), LAMBDA r :
         Bind([acc EXCEPT !.calls = Append(@, [from |-> from, to |-> to, kind |-> r.kind])],
              LAMBDA seen :
                IF r.kind = "return" THEN [seen EXCEPT !.list = Append(@, r)]
                ELSE IF r.kind \in NoShortestPathErrorClasses
                     THEN [seen EXCEPT !.printed = Append(@, named)]
                ELSE [seen EXCEPT !.exc = r.kind]))

\* for loc in locs: possible_routes.append(solver(start=l, end=loc))
RECURSIVE OutboundLoop(_, _, _, _, _)
OutboundLoop(acc, g, l, ls, i) ==
    IF i > Len(ls) THEN acc
    ELSE Bind(TryAppend(acc, g, l, ls[i], ls[i]),
              LAMBDA a : OutboundLoop(a, g, l, ls, i + 1))

\* for pr in possible_routes: possible_return_routes.append(
\*     solver(start=pr[1][-1], end=l)); the handler prints `loc`, which is
\* still the last location of the first loop.
RECURSIVE ReturnLoop(_, _, _, _, _, _)
ReturnLoop(acc, g, l, possible_routes, named, i) ==
    IF i > Len(possible_routes) THEN acc
    ELSE LET pr == possible_routes[i].path
         IN  Bind(TryAppend(acc, g, pr[Len(pr)], l, named),
                  LAMBDA a : ReturnLoop(a, g, l, possible_routes, named, i + 1))

\* for i in range(len(possible_return_routes)): the i-th outbound path joined
\* with the i-th return path.  `out` and `back` record the two paths joined.
CombinedRoutes(possible_routes, possible_return_routes) ==
    [i \in 1..Len(possible_return_routes) |->
        LET route  == possible_routes[i].path \o Tail(possible_return_routes[i].path)
            weight == possible_routes[i].weight + possible_return_routes[i].weight
        IN  [weight |-> Quotient(weight, Len(route)),
             route  |-> route,
             out    |-> possible_routes[i].path,
             back   |-> possible_return_routes[i].path]]

\* The body of `for l in locs`, from the state left by the earlier iterations.
RoutesFrom(acc, g, ls, l) ==
    IF acc.exc # "" THEN acc
    ELSE Bind(OutboundLoop(EmptyLoop, g, l, ls, 1), LAMBDA outb :
         Bind(IF outb.exc # "" THEN outb
              ELSE ReturnLoop([EmptyLoop EXCEPT !.calls = outb.calls,
                                                 !.printed = outb.printed],
                              g, l, outb.list, ls[Len(ls)], 1),
              LAMBDA retn :
                [exc        |-> retn.exc,
                 all_routes |-> IF retn.exc # "" THEN acc.all_routes
                                ELSE acc.all_routes \o CombinedRoutes(outb.list, retn.list),
                 printed    |-> acc.printed \o retn.printed,
                 calls      |-> acc.calls \o retn.calls]))

RECURSIVE AllRoutes(_, _, _, _)
AllRoutes(acc, g, ls, i) ==
    IF i > Len(ls) THEN acc
    ELSE Bind(RoutesFrom(acc, g, ls, ls[i]), LAMBDA a : AllRoutes(a, g, ls, i + 1))

\* all_routes_df.loc[all_routes_df.weight > 0]: the rows kept, by index.
PositiveRows(all_routes) ==
    SelectSeq([i \in 1..Len(all_routes) |-> i], LAMBDA i : all_routes[i].weight.num > 0)

\* Mutant of DropDuplicates: no row is dropped.
DropDuplicates_KeepAll(all_routes, idx) == idx

\* .drop_duplicates('weight'): a row goes when an earlier kept row has its weight.
DropDuplicates(all_routes, idx) ==
    SelectSeq(idx, LAMBDA i :
        \A j \in Range(idx) : j < i => all_routes[j].weight # all_routes[i].weight)

\* The DataFrame returned: rows keep the index they had in all_routes.
RowsOf(all_routes, idx) ==
    [k \in 1..Len(idx) |-> [index  |-> idx[k],
                            weight |-> all_routes[idx[k]].weight,
                            route  |-> all_routes[idx[k]].route]]

\* all_routes_df.loc[all_routes_df.weight > 0].drop_duplicates('weight')
PositiveDistinct(all_routes) ==
    Bind(PositiveRows(all_routes),
         LAMBDA idx : RowsOf(all_routes, DropDuplicates(all_routes, idx)))

potential_routes(ls, g) ==
    Bind(AllRoutes([exc |-> "", all_routes |-> <<>>, printed |-> <<>>, calls |-> <<>>],
                   g, ls, 1),
         LAMBDA acc :
            LET out(kind, rows) ==
                    [kind |-> kind, rows |-> rows, all_routes |-> acc.all_routes,
                     printed |-> acc.printed, calls |-> acc.calls]
            IN  IF acc.exc # "" THEN out(acc.exc, <<>>)
                \* pd.DataFrame([]) has no column to rename: .weight is an
                \* AttributeError
                ELSE IF acc.all_routes = <<>> THEN out("AttributeError", <<>>)
                ELSE out("return", PositiveDistinct(acc.all_routes)))

\* ------------------------------------------------------- get_best_route

\* weight <= weight on the fractions potential_routes computes.
QuotientLeq(a, b) == a.num * b.den <= b.num * a.den

\* possible_routes.sort_values('weight').head(1).route.values[0]: the route of
\* the row of least weight; .values[0] of no row at all is an IndexError, and
\* an exception of potential_routes goes through.
best_route(possible_routes) ==
    IF possible_routes.kind # "return"
    THEN [kind |-> possible_routes.kind, route |-> <<>>]
    ELSE IF possible_routes.rows = <<>>
    THEN [kind |-> "IndexError", route |-> <<>>]
    ELSE LET rows  == Range(possible_routes.rows)
             first == CHOOSE r \in rows : \A q \in rows : QuotientLeq(r.weight, q.weight)
         IN  [kind |-> "return", route |-> first.route]

\* --------------------------------------------------- get_current_market
\* A DataFrame is the sequence of its rows, each row a record of its columns
\* and of its index label.

Goods == Range(GoodOrder)

\* Series.unique(): the values in the order of their first appearance.
Unique(values) ==
    LET firsts == SelectSeq([i \in 1..Len(values) |-> i],
                            LAMBDA i : \A j \in 1..(i - 1) : values[j] # values[i])
    IN  [k \in 1..Len(firsts) |-> values[firsts[k]]]

RECURSIVE Concat(_)
Concat(frames) == IF frames = <<>> THEN <<>> ELSE Head(frames) \o Concat(Tail(frames))

\* pd.to_datetime on a stored time: the hours since the start of the month.
to_datetime(time) ==
    CASE time = "2021-03-14 23:00:00" -> 14 * 24 + 23
      [] time = "2021-03-15 01:00:00" -> 15 * 24 + 1
      [] time = "2021-03-15 02:00:00" -> 15 * 24 + 2

\* The keys of groupby('symbol'), sorted.
GroupKeys(frame) == SelectSeq(GoodOrder, LAMBDA g : \E i \in 1..Len(frame) : frame[i].symbol = g)

\* Mutant of TimeIdxMax: the label of the first row of the group.
TimeIdxMax_First(group) == group[1].index

\* Mutant of TimeIdxMax: the label of the last row of the greatest time.
TimeIdxMax_Last(group) ==
    LET latest(i) == \A j \in 1..Len(group) : group[j].time <= group[i].time
        last == CHOOSE i \in 1..Len(group) :
                    latest(i) /\ \A j \in (i + 1)..Len(group) : ~latest(j)
    IN  group[last].index

\* .time.idxmax() on one group: the label of the first row of the greatest time.
TimeIdxMax(group) ==
    LET latest(i) == \A j \in 1..Len(group) : group[j].time <= group[i].time
        first == CHOOSE i \in 1..Len(group) :
                    latest(i) /\ \A j \in 1..(i - 1) : ~latest(j)
    IN  group[first].index

\* frame.loc[label]
RowAt(frame, label) == frame[CHOOSE i \in 1..Len(frame) : frame[i].index = label]

get_current_market_for_loc(db, symbol) ==
    LET loc_current == SelectSeq(db, LAMBDA row : row.location = symbol)
        keys == GroupKeys(loc_current)
        group(g) == SelectSeq(loc_current, LAMBDA row : row.symbol = g)
    IN  [k \in 1..Len(keys) |-> RowAt(loc_current, TimeIdxMax(group(keys[k])))]

\* .drop(['uuid', 'tracker'], axis=1)
DropUuidTracker(row) ==
    [index |-> row.index, location |-> row.location, symbol |-> row.symbol, time |-> row.time]

\* pd.concat of no frame at all is a ValueError.
get_current_market(db) ==
    LET converted == [i \in 1..Len(db) |-> [db[i] EXCEPT !.time = to_datetime(@)]]
        symbols == Unique([i \in 1..Len(db) |-> db[i].location])
        trades == [k \in 1..Len(symbols) |-> get_current_market_for_loc(converted, symbols[k])]
    IN  IF trades = <<>> THEN [kind |-> "ValueError", rows |-> <<>>]
        ELSE LET recent_trades == Concat(trades)
             IN  [kind |-> "return",
                  rows |-> [i \in 1..Len(recent_trades) |-> DropUuidTracker(recent_trades[i])]]

\* ------------------------------------------------------------ all_trades

\* round(math.sqrt(n)) for an integer n >= 0: the nearest integer, and no
\* square root of an integer lies halfway between two.
RoundSqrt(n) == CHOOSE d \in 0..n : (2 * d - 1) * (2 * d - 1) < 4 * n /\ 4 * n < (2 * d + 1) * (2 * d + 1)

\* calc_distance
calc_distance(from_x, to_x, from_y, to_y) ==
    IF from_x = to_x /\ from_y = to_y THEN 0
    ELSE RoundSqrt((to_x - from_x) * (to_x - from_x) + (to_y - from_y) * (to_y - from_y))

\* round() of the Series num / den, num >= 0 and den > 0: halves go to the
\* even neighbour.
RoundHalfEven(num, den) ==
    LET q == num \div den
        r == num % den
    IN  IF 2 * r < den THEN q
        ELSE IF 2 * r > den THEN q + 1
        ELSE IF q % 2 = 0 THEN q ELSE q + 1

\* The seconds every flight takes, whatever its distance.
FlightOverhead == 59

\* Mutant of time_to_fly: the overhead is left out.
time_to_fly_NoOverhead(distance, speed) == RoundHalfEven(distance * 2, speed)

\* round(mc_clean.distance * (2/ship.speed) + 59)
time_to_fly(distance, speed) == RoundHalfEven(distance * 2 + FlightOverhead * speed, speed)

\* profit / time_to_fly / volumePerUnit in float64: a fraction in lowest
\* terms, or what a division by zero leaves: inf, -inf, or nan for 0 / 0.
Ctv(profit, time, volumePerUnit) ==
    IF volumePerUnit # 0 THEN [kind |-> "finite"] @@ Quotient(profit, time * volumePerUnit)
    ELSE [kind |-> IF profit > 0 THEN "inf" ELSE IF profit < 0 THEN "-inf" ELSE "nan",
          num |-> 0, den |-> 1]

\* One row of mc_clean: the origin's row joined with a row of the same good.
TradeRow(from, to, speed) ==
    LET profit   == to.sellPricePerUnit - from.purchasePricePerUnit
        distance == calc_distance(from.x, to.x, from.y, to.y)
        time     == time_to_fly(distance, speed)
    IN  [symbol |-> from.symbol, volumePerUnit |-> from.volumePerUnit,
         from_loc |-> from.location, to_loc |-> to.location,
         purchasePricePerUnit |-> from.purchasePricePerUnit,
         sellPricePerUnit |-> to.sellPricePerUnit,
         profit |-> profit, distance |-> distance, time_to_fly |-> time,
         ctv |-> Ctv(profit, time, from.volumePerUnit)]

\* loc_market.join(current_market.set_index('symbol'), on='symbol',
\* how='inner'), for one row of loc_market: every row of the market that
\* quotes the good, the row itself among them.
JoinOnSymbol(row, market) == SelectSeq(market, LAMBDA other : other.symbol = row.symbol)

all_trades_for_loc(market, symbol, speed) ==
    LET loc_market == SelectSeq(market, LAMBDA row : row.location = symbol)
    IN  Concat([i \in 1..Len(loc_market) |->
                  LET from == loc_market[i]
                      matches == JoinOnSymbol(from, market)
                  IN  [k \in 1..Len(matches) |-> TradeRow(from, matches[k], speed)]])

\* .reset_index().drop('index', axis=1): the rows take the labels 0, 1, ...
ResetIndex(frame) == [i \in 1..Len(frame) |-> [index |-> i - 1] @@ frame[i]]

\* pd.concat of no frame at all is a ValueError.
all_trades(market, speed) ==
    LET symbols == Unique([i \in 1..Len(market) |-> market[i].location])
        trades == [k \in 1..Len(symbols) |-> all_trades_for_loc(market, symbols[k], speed)]
    IN  IF trades = <<>> THEN [kind |-> "ValueError", rows |-> <<>>]
        ELSE [kind |-> "return", rows |-> ResetIndex(Concat(trades))]

\* ----------------------------------------------------------- best_trades

\* ctv <= ctv in float64, neither of them nan.
CtvLeq(a, b) ==
    IF a.kind = "-inf" \/ b.kind = "inf" THEN TRUE
    ELSE IF a.kind = "inf" \/ b.kind = "-inf" THEN FALSE
    ELSE a.num * b.den <= b.num * a.den

\* The label idxmax gives for a group that is all nan.
NanLabel == -1

\* .ctv.idxmax() on one group: nan is skipped, and the label is that of the
\* first row of the greatest ctv; nan itself when the group is all nan.
CtvIdxMax(group) ==
    LET numbers == SelectSeq(group, LAMBDA row : row.ctv.kind # "nan")
        greatest(i) == \A j \in 1..Len(numbers) : CtvLeq(numbers[j].ctv, numbers[i].ctv)
    IN  IF numbers = <<>> THEN NanLabel
        ELSE numbers[CHOOSE i \in 1..Len(numbers) :
                        greatest(i) /\ \A j \in 1..(i - 1) : ~greatest(j)].index

\* The keys of groupby('to_loc'), sorted.
ToLocKeys(frame) == SelectSeq(LocOrder, LAMBDA l : \E i \in 1..Len(frame) : frame[i].to_loc = l)

\* all_trades.loc[idxs] of a label that is nan is a KeyError.
best_trades_per_loc(trades, symbol) ==
    LET from_rows == SelectSeq(trades, LAMBDA row : row.from_loc = symbol)
        keys == ToLocKeys(from_rows)
        group(l) == SelectSeq(from_rows, LAMBDA row : row.to_loc = l)
        idxs == [k \in 1..Len(keys) |-> CtvIdxMax(group(keys[k]))]
    IN  IF \E k \in 1..Len(idxs) : idxs[k] = NanLabel
        THEN [kind |-> "KeyError", rows |-> <<>>]
        ELSE [kind |-> "return", rows |-> [k \in 1..Len(idxs) |-> RowAt(trades, idxs[k])]]

best_trades(all_trades_rows) ==
    LET symbols == Unique([i \in 1..Len(all_trades_rows) |-> all_trades_rows[i].from_loc])
        trades == [k \in 1..Len(symbols) |-> best_trades_per_loc(all_trades_rows, symbols[k])]
    IN  IF \E k \in 1..Len(trades) : trades[k].kind # "return"
        THEN [kind |-> "KeyError", rows |-> <<>>]
        ELSE IF trades = <<>> THEN [kind |-> "ValueError", rows |-> <<>>]
        ELSE [kind |-> "return",
              rows |-> ResetIndex(Concat([k \in 1..Len(trades) |-> trades[k].rows]))]

\* ------------------------------------------- prepare_data_for_algorithm
\* A Decimal the function makes is sign * ln(num / den) or sign * Infinity.

\* Decimal(x).ln() of a float x >= 0: -Infinity at 0, Infinity at inf.
DecimalLn(x) ==
    IF x.kind = "inf" THEN [sign |-> 1, kind |-> "Infinity", num |-> 0, den |-> 1]
    ELSE IF x.num = 0 THEN [sign |-> -1, kind |-> "Infinity", num |-> 0, den |-> 1]
    ELSE [sign |-> 1, kind |-> "ln", num |-> x.num, den |-> x.den]

\* -d
DecimalNeg(d) == [d EXCEPT !.sign = -@]

\* x > 0 on a float: false on nan.
IsPositive(x) == x.kind = "inf" \/ (x.kind = "finite" /\ x.num > 0)

\* Decimal(0)
DecimalZero == [kind |-> "finite", num |-> 0, den |-> 1]

\* Mutant of set_value: the logarithm is not negated.
set_value_NotNegated(x) == IF IsPositive(x) THEN DecimalLn(x) ELSE DecimalLn(DecimalZero)

\* Mutant of set_value: a score that is not positive gets the weight 0.
set_value_ZeroForLoss(x) ==
    IF IsPositive(x) THEN DecimalNeg(DecimalLn(x))
    ELSE [sign |-> 1, kind |-> "ln", num |-> 1, den |-> 1]

\* set_value = lambda x: -Decimal(x).ln() if x > 0 else -Decimal(0).ln()
set_value(x) ==
    IF IsPositive(x) THEN DecimalNeg(DecimalLn(x)) ELSE DecimalNeg(DecimalLn(DecimalZero))

\* d[key] = value on a dict: a key it has keeps its place.
PutItem(items, key, value) ==
    IF \E i \in 1..Len(items) : items[i][1] = key
    THEN [i \in 1..Len(items) |-> IF items[i][1] = key THEN <<key, value>> ELSE items[i]]
    ELSE Append(items, <<key, value>>)

\* {row.to_loc: set_value(row.ctv) for (index, row) in rows.iterrows()}
RECURSIVE DictOfRows(_, _)
DictOfRows(items, rows) ==
    IF rows = <<>> THEN items
    ELSE DictOfRows(PutItem(items, Head(rows).to_loc, set_value(Head(rows).ctv)), Tail(rows))

\* Mutant of RowsFrom: the rows are not filtered by their origin.
RowsFrom_All(frame, loc) == frame

\* best_trades.loc[best_trades.from_loc == loc]
RowsFrom(frame, loc) == SelectSeq(frame, LAMBDA row : row.from_loc = loc)

RECURSIVE PathsOf(_, _, _)
PathsOf(paths, from_locs, frame) ==
    IF from_locs = <<>> THEN paths
    ELSE PathsOf(PutItem(paths, Head(from_locs), DictOfRows(<<>>, RowsFrom(frame, Head(from_locs)))),
                 Tail(from_locs), frame)

prepare_data_for_algorithm(best_trades_rows) ==
    LET from_locs == Unique([i \in 1..Len(best_trades_rows) |-> best_trades_rows[i].from_loc])
    IN  [kind |-> "return", paths |-> PathsOf(<<>>, from_locs, best_trades_rows)]

\* ---------------------------------------------------- create_route_guide

\* best_trades.loc[(best_trades.from_loc == from_loc) & (best_trades.to_loc == to_loc)]
get_trade(best_trades_rows, from_loc, to_loc) ==
    SelectSeq(best_trades_rows, LAMBDA row : row.from_loc = from_loc /\ row.to_loc = to_loc)

\* Mutant of create_route_guide: the legs are looked up against their direction.
create_route_guide_Reversed(best_trades_rows, route) ==
    IF Len(route) <= 1 THEN [kind |-> "ValueError", rows |-> <<>>]
    ELSE [kind |-> "return",
          rows |-> ResetIndex(Concat([i \in 1..(Len(route) - 1) |->
                                        get_trade(best_trades_rows, route[i + 1], route[i])]))]

\* pd.concat(get_trade(best_trades, route[i], route[i+1]) for i in
\* range(len(route) - 1)).reset_index().drop('index', axis=1); pd.concat of
\* no frame at all is a ValueError.
create_route_guide(best_trades_rows, route) ==
    IF Len(route) <= 1 THEN [kind |-> "ValueError", rows |-> <<>>]
    ELSE [kind |-> "return",
          rows |-> ResetIndex(Concat([i \in 1..(Len(route) - 1) |->
                                        get_trade(best_trades_rows, route[i], route[i + 1])]))]

\* The rows of bt the graph was made of: one for each entry graph[o][d], in
\* the order of the graph.
BestTradesOf(g) ==
    ResetIndex(Concat([i \in 1..Len(g) |->
                         [k \in 1..Len(g[i][2]) |->
                            [from_loc |-> g[i][1], to_loc |-> g[i][2][k][1],
                             weight |-> g[i][2][k][2]]]]))

\* ---------------------------------------------------------------- inputs

\* graph[tail][head] = weight on a dict that has no such edge yet: a new tail
\* goes to the end of the keys, a new head to the end of its tail's items.
DictInsert(g, tail, head, weight) ==
    IF HasKey(g, tail)
    THEN [i \in 1..Len(g) |->
            IF g[i][1] = tail THEN <<tail, Append(g[i][2], <<head, weight>>)>> ELSE g[i]]
    ELSE Append(g, <<tail, << <<head, weight>> >> >>)

\* The number of edges of the graph.
NumEdges(g) == SeqSum([i \in 1..Len(g) |-> Len(g[i][2])])

\* The locs handed to potential_routes: distinct locations (location.unique()),
\* none to all of them.  Every renaming of a graph the model builds is built
\* too, so the locations in one fixed order stand for every choice and order
\* of them.
LocSeqs == { SubSeq(LocOrder, 1, k) : k \in 0..Len(LocOrder) }

NoOutcome == Raised("")
NoRoutes == [kind |-> "", rows |-> <<>>, all_routes |-> <<>>, printed |-> <<>>, calls |-> <<>>]
NoBest == [kind |-> "", route |-> <<>>]
NoSnapshot == [kind |-> "", rows |-> <<>>]
NoFrame == [kind |-> "", rows |-> <<>>]
NoPaths == [kind |-> "", paths |-> <<>>]

\* The place of an element in a sequence without repeats.
PlaceIn(order, x) == CHOOSE i \in 1..Len(order) : order[i] = x

\* The origins of a graph, as a set and in their order.
KeysOf(g) == {g[i][1] : i \in 1..Len(g)}

KeySeq(g) == [i \in 1..Len(g) |-> g[i][1]]

\* The edges a new location brings: to itself, and to and from its partners.
NewEdges(l, partners) ==
    {<<l, l>>} \cup {<<l, o>> : o \in partners} \cup {<<o, l>> : o \in partners}

\* The dict of an origin: its destinations in sorted order.
SortedItems(tail, heads, weight) ==
    LET order == SelectSeq(LocOrder, LAMBDA h : h \in heads)
    IN  [k \in 1..Len(order) |-> <<order[k], weight[<<tail, order[k]>>]>>]

\* The graph with the location and its edges put in.
InsertLocation(g, l, partners, weight) ==
    LET old(tail, head) == IF head = l THEN weight[<<tail, l>>] ELSE EdgeWeight(g, tail, head)
        widened == [i \in 1..Len(g) |->
                      IF g[i][1] \in partners
                      THEN <<g[i][1],
                             SortedItems(g[i][1], Heads(g[i][2]) \cup {l},
                                         [e \in {g[i][1]} \X (Heads(g[i][2]) \cup {l}) |->
                                            old(e[1], e[2])])>>
                      ELSE g[i]]
    IN  Append(widened, <<l, SortedItems(l, partners \cup {l}, weight)>>)

\* The routes of a graph: the paths of up to MaxRoute locations along its
\* edges, the path of one location among them.
RoutesIn(g) ==
    { r \in UNION { [1..n -> Locs] : n \in 1..MaxRoute } :
        /\ r[1] \in KeysOf(g)
        /\ \A i \in 1..(Len(r) - 1) : is_edge(g, r[i], r[i + 1]) }

\* ---------------------------------------------------- am_i_on_best_route

\* The guide of a route without its trades: a leg for each pair of
\* consecutive locations.
Legs(route) ==
    [k \in 1..(Len(route) - 1) |-> [from_loc |-> route[k], to_loc |-> route[k + 1]]]

\* The guides of the routes of up to MaxLegs legs.
Guides == { Legs(route) : route \in UNION { [1..n -> Locs] : n \in 1..(MaxLegs + 1) } }

\* am_i_on_best_route(current_route, best_route)
am_i_on_best_route(current_route, best_guide) ==
    IF Len(current_route) # Len(best_guide) THEN FALSE
    ELSE IF \A k \in 1..Len(current_route) :
               \A j \in 1..Len(best_guide) : best_guide[j].from_loc # current_route[k].from_loc
         THEN FALSE
    ELSE TRUE

\* -------------------------------------------------------------- client.py
\* Client.generic_api_call: up to ten tries of make_request, a pause after a
\* throttled or a failed one. The token is the client's, a string.

\* for i in range(10)
MaxTries == 10

\* code == 42901
ThrottleCode == 42901

\* code == 500 or code == 409
ServerCodes == {500, 409}

\* The error codes the API answers with here: the throttle code, the server
\* codes, one code exceptions.py knows and one that nothing knows.
ErrorCodes == {42901, 500, 409, 4109}

\* The throttle_time of a call: the tests' and the default.
ThrottleTimes == {0, 10}

\* The warning_log of a call.
WarningLog == "Game is currently down"

NoBody == [data |-> ""]

\* r.json(): a body of data, or a body with an error.
Bodies ==
    {[data |-> "game_status"]} \cup
    {[error |-> [code |-> code, message |-> "Fail"]] : code \in ErrorCodes}

\* What make_request comes back with: a response, or an exception of requests.
Responses ==
    {[raises |-> "", json |-> body] : body \in Bodies} \cup
    {[raises |-> "ConnectionError", json |-> NoBody]}

\* The values of Python the call ends with.
False == [kind |-> "return", type |-> "bool", json |-> NoBody]

NotCalled == [kind |-> "", type |-> "", json |-> NoBody]

Running == [kind |-> "running", type |-> "", json |-> NoBody]

Raise(class) == [kind |-> "raise", type |-> class, json |-> NoBody]

\* te.message and se.message
ThrottleMessage == "Throttle limit was reached. Pausing to wait for throttle"

ServerMessage == "Server Error. Pausing before trying again"

\* The warning of an error body.
occurred(code) == <<"WARNING", "An error has occurred when hitting", code>>

\* except ThrottleException / except ServerException: the message logged, the
\* pause, and on to the next try.
handle_NoPause(code, message, throttle) ==
    [log |-> <<occurred(code), <<"INFO", message>>>>,
     slept |-> <<>>, outcome |-> Running]

handle(code, message, throttle) ==
    [log |-> <<occurred(code), <<"INFO", message>>>>,
     slept |-> <<throttle>>, outcome |-> Running]

\* "Unknown handling for error": the caller's warning, the exception record,
\* and False.
unknown_handling_Retried(code, warning_log) ==
    [log |-> <<occurred(code), <<"WARNING", warning_log>>,
               <<"ERROR", "Something broke the script", code>>>>,
     slept |-> <<>>, outcome |-> Running]

unknown_handling(code, warning_log) ==
    [log |-> <<occurred(code), <<"WARNING", warning_log>>,
               <<"ERROR", "Something broke the script", code>>>>,
     slept |-> <<>>, outcome |-> False]

\* "If successful return r": the response, or its JSON.
successful_NeverRaw(r, raw) ==
    [log |-> <<>>, slept |-> <<>>,
     outcome |-> [kind |-> "return", type |-> "dict", json |-> r.json]]

successful(r, raw) ==
    [log |-> <<>>, slept |-> <<>>,
     outcome |-> [kind |-> "return",
                  type |-> IF raw THEN "Response" ELSE "dict",
                  json |-> r.json]]

\* One pass of the loop on what make_request came back with: the records it
\* logs, the pauses it makes, and whether the call goes on. An exception that
\* is neither of the two is returned.
generic_api_call(r, warning_log, raw, throttle) ==
    IF r.raises # ""
    THEN [log |-> <<>>, slept |-> <<>>,
          outcome |-> [kind |-> "return", type |-> r.raises, json |-> NoBody]]
    ELSE IF "error" \in DOMAIN r.json
    THEN LET code == r.json.error.code
         IN  IF code = ThrottleCode
             THEN handle(code, ThrottleMessage, throttle)
             ELSE IF code \in ServerCodes
             THEN handle(code, ServerMessage, throttle)
             ELSE unknown_handling(code, warning_log)
    ELSE successful(r, raw)

\* An endpoint method, on what generic_api_call ended with:
\* return res if res else False
register_new_agent(res) ==
    IF res.kind = "raise" THEN res
    ELSE IF res.type = "bool" THEN False
    ELSE res

\* Api: the object that holds a client for each group of endpoints.

\* The tokens of the model; "None" is Python's None.
Tokens == {"None", "12345", "e8c9", "f2a1"}

Usernames == {"None", "JimHawkins"}

\* The attributes Api.__init__ sets to clients, for the first API and for v2.
SubClients ==
    {"account", "flightplans", "game", "leaderboard", "loans", "locations",
     "marketplace", "purchaseOrders", "sellOrders", "ships", "structures",
     "systems", "users", "types", "warpjump"}

V2SubClients ==
    {"ships", "systems", "agent", "markets", "trade", "navigation", "contracts",
     "extract", "shipyard"}

\* The attributes generate_token reaches into: X.token = self.token
Retokened ==
    {"game", "leaderboard", "loans", "locations", "marketplace", "purchaseOrders",
     "sellOrders", "ships", "structures", "systems", "users", "types"}

\* The attributes generate_token binds anew: self.X = self.token
Rebound == {"account", "warpjump"}

\* A client object, and a str.
ClientObject(token) == [type |-> "Client", token |-> token]

Str(value) == [type |-> "str", value |-> value]

NoApi == [v2 |-> FALSE, token |-> "None", username |-> "None", attrs |-> <<>>]

\* Api(username, token, v2); a v2 Api has no username attribute.
Api(username, token, v2) ==
    IF v2
    THEN [v2 |-> TRUE, token |-> token, username |-> "",
          attrs |-> [name \in V2SubClients |-> ClientObject(token)]]
    ELSE [v2 |-> FALSE, token |-> token, username |-> username,
          attrs |-> [name \in SubClients |-> ClientObject(token)]]

\* What make_request gives to generate_token: a response that is ok and
\* carries a token, one that is not, or an exception of requests.
ClaimResponses ==
    {[raises |-> "", ok |-> TRUE, token |-> token] : token \in Tokens \ {"None"}} \cup
    {[raises |-> "", ok |-> FALSE, token |-> "None"],
     [raises |-> "ConnectionError", ok |-> FALSE, token |-> "None"]}

None == [kind |-> "return", type |-> "NoneType", json |-> NoBody]

\* generate_token(self) on what make_request came back with: the Api after
\* it, and what the call ends with.
generate_token(self, res) ==
    IF self.v2 THEN [self |-> self, outcome |-> Raise("AttributeError")]
    ELSE IF res.raises # ""
    THEN [self |-> self,
          outcome |-> [kind |-> "return", type |-> res.raises, json |-> NoBody]]
    ELSE IF res.ok
    THEN [self |-> [self EXCEPT
                      !.token = res.token,
                      !.attrs = [name \in DOMAIN self.attrs |->
                                   IF name \in Retokened
                                   THEN [self.attrs[name] EXCEPT !.token = res.token]
                                   ELSE IF name \in Rebound THEN Str(res.token)
                                   ELSE self.attrs[name]]],
          outcome |-> None]
    ELSE [self |-> self, outcome |-> None]

\* ---------------------------------------------------------- exceptions.py
\* which_exception(error): the class of the exception of an error code.
which_exception(code) ==
    CASE code = 4109 -> "RegisterAgentExistsError"
      [] code = 429  -> "ThrottleException"
      [] code = 404  -> "ResourceNotFoundError"
      [] code = 4500 -> "AcceptContractNotAuthorizedError"
      [] code = 4501 -> "AcceptContractConflictError"
      [] code = 4502 -> "FulfillContractDeliveryError"
      [] code = 4503 -> "ContractDeadlineError"
      [] code = 4504 -> "ContractFulfilledError"
      [] code = 4508 -> "ShipDeliverTermsError"
      [] code = 4510 -> "ShipDeliverInvalidLocationError"
      [] code = 4603 -> "MarketNotFoundError"
      [] code = 5000 -> "ServerException"
      [] OTHER -> "Exception"

\* ----------------------------------------------------------- specification

\* The empty dict, before any edge is put in.
Init ==
    /\ graph = <<>>
    /\ op = "idle"
    /\ start = ""
    /\ end = ""
    /\ locs = <<>>
    /\ solved = NoOutcome
    /\ routed = NoRoutes
    /\ best = NoBest
    /\ guide = NoFrame
    /\ market_db = <<>>
    /\ snapshot = NoSnapshot
    /\ current_market = <<>>
    /\ ship = 0
    /\ traded = NoFrame
    /\ bt = NoFrame
    /\ prepared = NoPaths
    /\ raw_res = FALSE
    /\ throttle_time = 0
    /\ tries = 0
    /\ responses = <<>>
    /\ log = <<>>
    /\ slept = <<>>
    /\ returned = NotCalled
    /\ api = NoApi
    /\ claims = <<>>
    /\ generated = NotCalled
    /\ on_route = [current_route |-> <<>>, best_route |-> <<>>, result |-> FALSE]

\* graph[tail][head] = weight, for an edge the graph does not have yet: the
\* caller building the dict, edges going in in any order.
AddEdge ==
    /\ op = "idle"
    /\ NumEdges(graph) < MaxEdges
    /\ \E tail \in Locs, head \in Locs, weight \in Weights :
        /\ ~is_edge(graph, tail, head)
        /\ graph' = DictInsert(graph, tail, head, weight)
    /\ UNCHANGED <<op, start, end, locs, solved, routed, best, guide, snapshotVars, tradeVars, serviceVars>>

\* shortest_path_bellman_ford(graph=graph, start=s, end=e)
CallSolver ==
    /\ op = "idle"
    /\ \E s \in Locs, e \in Locs :
        /\ start' = s
        /\ end' = e
        /\ solved' = shortest_path_bellman_ford(graph, s, e)
    /\ op' = "solver"
    /\ UNCHANGED <<graph, locs, routed, best, guide, snapshotVars, tradeVars, serviceVars>>

\* potential_routes(locs, graph)
CallPotentialRoutes ==
    /\ op = "idle"
    /\ \E ls \in LocSeqs :
        /\ locs' = ls
        /\ routed' = potential_routes(ls, graph)
    /\ op' = "routes"
    /\ UNCHANGED <<graph, start, end, solved, best, guide, snapshotVars, tradeVars, serviceVars>>

\* One more location of the market in the graph prepare_data_for_algorithm
\* makes of bt: the location trades with itself and, both ways, with the
\* locations that quote a good it quotes; a dict of destinations is in sorted
\* order, the origins are in the order of the market.
AddTradingLocation ==
    /\ op = "idle"
    /\ \E l \in Locs \ KeysOf(graph) :
        \E partners \in SUBSET KeysOf(graph) :
        \E weight \in [NewEdges(l, partners) -> Weights] :
            graph' = InsertLocation(graph, l, partners, weight)
    /\ UNCHANGED <<op, start, end, locs, solved, routed, best, guide, snapshotVars, tradeVars, serviceVars>>

\* get_best_route from the graph on: locs are the locations of the market,
\* potential_routes(locs, graph), the choice of the best of the routes it
\* returned, and create_route_guide(bt, route) of bt, the rows the graph was
\* made of; a call that raises ends it.
CallGetBestRoute ==
    /\ op = "idle"
    /\ \E possible_routes \in {potential_routes(KeySeq(graph), graph)} :
       \E chosen \in {best_route(possible_routes)} :
            /\ locs' = KeySeq(graph)
            /\ routed' = possible_routes
            /\ best' = chosen
            /\ guide' = IF chosen.kind = "return"
                        THEN create_route_guide(BestTradesOf(graph), chosen.route)
                        ELSE NoFrame
    /\ op' = "get_best_route"
    /\ UNCHANGED <<graph, start, end, solved, snapshotVars, tradeVars, serviceVars>>

\* create_route_guide(bt, route) on a route of the graph bt made.
CallCreateRouteGuide ==
    /\ op = "idle"
    /\ \E route \in RoutesIn(graph) :
        /\ best' = [kind |-> "return", route |-> route]
        /\ guide' = create_route_guide(BestTradesOf(graph), route)
    /\ op' = "create_route_guide"
    /\ UNCHANGED <<graph, start, end, locs, solved, routed, snapshotVars, tradeVars, serviceVars>>

\* One more observation at the end of the table: the tracker appending what a
\* visit to a marketplace saw, under the next index label.
AddObservation ==
    /\ op = "idle"
    /\ Len(market_db) < MaxObs
    /\ \E location \in Locations, symbol \in Goods, time \in RawTimes :
        market_db' = Append(market_db,
                            [index |-> Len(market_db), location |-> location,
                             symbol |-> symbol, time |-> time,
                             uuid |-> Len(market_db), tracker |-> "tracker"])
    /\ UNCHANGED <<op, snapshot, routeVars, tradeVars, serviceVars>>

\* get_current_market(market_db)
CallGetCurrentMarket ==
    /\ op = "idle"
    /\ snapshot' = get_current_market(market_db)
    /\ op' = "get_current_market"
    /\ UNCHANGED <<market_db, routeVars, tradeVars, serviceVars>>

\* One more row of the snapshot, as get_current_market lays it out: the rows
\* of a location together, its goods in sorted order, one row for a location
\* and a good.
AddQuote ==
    /\ op = "idle"
    /\ Len(current_market) < MaxQuotes
    /\ \E location \in Locs, symbol \in Goods, quote \in Quotes :
        /\ IF \E i \in 1..Len(current_market) : current_market[i].location = location
           THEN /\ Last(current_market).location = location
                /\ PlaceIn(GoodOrder, Last(current_market).symbol) < PlaceIn(GoodOrder, symbol)
           ELSE TRUE
        /\ current_market' =
              Append(current_market,
                     [location |-> location, symbol |-> symbol,
                      x |-> Coordinates[location].x, y |-> Coordinates[location].y] @@ quote)
    /\ UNCHANGED <<op, ship, traded, bt, prepared, routeVars, snapshotVars, serviceVars>>

\* get_best_route from the snapshot to the graph:
\* bt = best_trades(all_trades(current_market, ship)), then
\* prepare_data_for_algorithm(bt); a call that raises ends it.
CallTrades ==
    /\ op = "idle"
    /\ \E speed \in Speeds :
        \E trades \in {all_trades(current_market, speed)} :
        \E bests \in {IF trades.kind = "return" THEN best_trades(trades.rows) ELSE NoFrame} :
            /\ ship' = speed
            /\ traded' = trades
            /\ bt' = bests
            /\ prepared' = IF bests.kind = "return"
                           THEN prepare_data_for_algorithm(bests.rows)
                           ELSE NoPaths
    /\ op' = "trades"
    /\ UNCHANGED <<current_market, routeVars, snapshotVars, serviceVars>>

\* generic_api_call(method, endpoint, token=..., warning_log=...,
\* raw_res=..., throttle_time=...): the headers made, the loop entered.
CallGenericApiCall ==
    /\ op = "idle"
    /\ \E raw \in BOOLEAN, throttle \in ThrottleTimes :
        /\ raw_res' = raw
        /\ throttle_time' = throttle
    /\ tries' = 0
    /\ responses' = <<>>
    /\ log' = <<>>
    /\ slept' = <<>>
    /\ returned' = Running
    /\ op' = "generic_api_call"
    /\ UNCHANGED <<routeVars, snapshotVars, tradeVars, apiVars, on_route>>

\* One pass of the loop: make_request, and what the call does with what it
\* gets.
Try ==
    /\ op = "generic_api_call"
    /\ returned.kind = "running"
    /\ tries < MaxTries
    /\ \E r \in Responses :
        \E pass \in {generic_api_call(r, WarningLog, raw_res, throttle_time)} :
            /\ responses' = Append(responses, r)
            /\ log' = log \o pass.log
            /\ slept' = slept \o pass.slept
            /\ returned' = pass.outcome
    /\ tries' = tries + 1
    /\ UNCHANGED <<op, raw_res, throttle_time, routeVars, snapshotVars, tradeVars, apiVars, on_route>>

\* The loop at its end: raise(TooManyTriesException)
GiveUp ==
    /\ op = "generic_api_call"
    /\ returned.kind = "running"
    /\ tries = MaxTries
    /\ returned' = Raise("TooManyTriesException")
    /\ UNCHANGED <<op, raw_res, throttle_time, tries, responses, log, slept,
                   routeVars, snapshotVars, tradeVars, apiVars, on_route>>

\* api = Api(username, token, v2)
NewApi ==
    /\ op = "idle"
    /\ api = NoApi
    /\ \E username \in Usernames, token \in Tokens, v2 \in BOOLEAN :
        api' = Api(username, token, v2)
    /\ UNCHANGED <<op, claims, generated, routeVars, snapshotVars, tradeVars, clientVars, on_route>>

\* api.generate_token()
CallGenerateToken ==
    /\ op = "idle"
    /\ api # NoApi
    /\ Len(claims) < MaxClaims
    /\ \E res \in ClaimResponses :
        \E call \in {generate_token(api, res)} :
            /\ api' = call.self
            /\ generated' = call.outcome
            /\ claims' = Append(claims, res)
    /\ UNCHANGED <<op, routeVars, snapshotVars, tradeVars, clientVars, on_route>>

\* am_i_on_best_route(current_route, best_route)
CallAmIOnBestRoute ==
    /\ op = "idle"
    /\ \E current_route \in Guides, best_guide \in Guides :
        on_route' = [current_route |-> current_route, best_route |-> best_guide,
                     result |-> am_i_on_best_route(current_route, best_guide)]
    /\ op' = "am_i_on_best_route"
    /\ UNCHANGED <<routeVars, snapshotVars, tradeVars, clientVars, apiVars>>

Next ==
    \/ AddEdge
    \/ CallSolver
    \/ CallPotentialRoutes
    \/ AddTradingLocation
    \/ CallGetBestRoute
    \/ CallCreateRouteGuide
    \/ AddObservation
    \/ CallGetCurrentMarket
    \/ AddQuote
    \/ CallTrades
    \/ CallGenericApiCall
    \/ Try
    \/ GiveUp
    \/ NewApi
    \/ CallGenerateToken
    \/ CallAmIOnBestRoute

Spec == Init /\ [][Next]_vars

\* The solver alone, and the assembler alone.
SolverSpec == Init /\ [][AddEdge \/ CallSolver]_vars

RoutesSpec == Init /\ [][AddEdge \/ CallPotentialRoutes]_vars

\* get_best_route on the graph it has prepared.
BestRouteSpec == Init /\ [][AddTradingLocation \/ CallGetBestRoute]_vars

\* create_route_guide, called by get_best_route and on a route of the graph.
GuideSpec == Init /\ [][AddTradingLocation \/ CallGetBestRoute \/ CallCreateRouteGuide]_vars

\* get_current_market on an observation table.
SnapshotSpec == Init /\ [][AddObservation \/ CallGetCurrentMarket]_vars

\* The trades of a snapshot, the best of them and the graph they make.
TradesSpec == Init /\ [][AddQuote \/ CallTrades]_vars

\* generic_api_call, try by try.
ClientSpec == Init /\ [][CallGenericApiCall \/ Try \/ GiveUp]_vars

\* An Api and the generate_token calls made on it.
ApiSpec == Init /\ [][NewApi \/ CallGenerateToken]_vars

\* am_i_on_best_route on two guides.
OnRouteSpec == Init /\ [][CallAmIOnBestRoute]_vars

\* ------------------------------------------------------- graph properties
\* What the claims speak of, defined on the graph itself and not through the
\* solver's dist and pred.

Successors(g, v) == IF HasKey(g, v) THEN Heads(Items(g, v)) ELSE {}

\* A closed walk through a negative cycle reachable from a vertex is found
\* within |V|-1 edges to reach it and |V| edges around it.
WalkBound == 2 * Cardinality(Locs) - 1

\* The directed walks from v of at most k edges, as vertex sequences.
RECURSIVE WalksFrom(_, _, _)
WalksFrom(g, v, k) ==
    IF k = 0 THEN { <<v>> }
    ELSE Bind(WalksFrom(g, v, k - 1), LAMBDA W :
            W \cup UNION { { Append(w, h) : h \in Successors(g, Last(w)) } : w \in W })

Walks(g, v) == WalksFrom(g, v, WalkBound)

\* Of the walks W from one vertex: those that end in `to`, and the vertices
\* they reach.
EndingIn(W, to) == { w \in W : Last(w) = to }

Ends(W) == { Last(w) : w \in W }

\* Some walk of W ends with a closed walk of negative weight.  W holds every
\* prefix of its walks, so this is: some walk of W runs through one.
HasNegativeCycle(g, W) ==
    \E w \in W :
        \E i \in 1..(Len(w) - 1) :
            w[i] = Last(w) /\ WalkWeight(g, SubSeq(w, i, Len(w))) < 0

ReachableFrom(g, v) == Ends(Walks(g, v))

\* A negative-weight cycle is reachable from v.
NegativeCycleReachable(g, v) == HasNegativeCycle(g, Walks(g, v))

\* The cycle of three edges of weight -1 through all three locations.
IsNegativeTriangle(g) ==
    /\ Len(g) = 3
    /\ \A i \in 1..3 : Len(g[i][2]) = 1 /\ g[i][2][1][2] = -1 /\ g[i][2][1][1] # g[i][1]
    /\ \A v \in Locs : Successors(g, v) # {} /\ Successors(g, v) # Successors(g, CHOOSE h \in Successors(g, v) : TRUE)
    /\ \A v \in Locs : \A h \in Successors(g, v) : v \notin Successors(g, h)

\* ----------------------------------------------------------------- claims

\* C1: with no negative cycle reachable from start and end reachable from
\* start, the solver returns, and the weight it returns is the least total
\* weight of a walk from start to end: no walk weighs less and some walk
\* weighs exactly that, whatever the order of the graph's keys and items.
C1_ReturnsMinimumWeight ==
    op = "solver"
    => Bind(Walks(graph, start), LAMBDA W :
            (~HasNegativeCycle(graph, W) /\ end \in Ends(W))
            => /\ solved.kind = "return"
               /\ \A w \in EndingIn(W, end) : solved.weight <= WalkWeight(graph, w)
               /\ \E w \in EndingIn(W, end) : solved.weight = WalkWeight(graph, w))

\* C1 witness: the solver returned a two-edge path although the direct edge
\* from start to end exists and weighs more.
C1_Witness ==
    /\ op = "solver"
    /\ solved.kind = "return"
    /\ Len(solved.path) = 3
    /\ is_edge(graph, start, end)
    /\ solved.weight < EdgeWeight(graph, start, end)

\* C2: a returned path begins with start, ends with end, walks only edges of
\* the graph, and the returned weight is the sum of those edges' weights.
C2_ReturnedPathIsValid ==
    (op = "solver" /\ solved.kind = "return")
    => /\ Len(solved.path) >= 1
       /\ solved.path[1] = start
       /\ Last(solved.path) = end
       /\ IsWalk(graph, solved.path)
       /\ solved.weight = WalkWeight(graph, solved.path)

\* C2 witness: a returned path of two edges between different locations.
C2_Witness ==
    /\ op = "solver"
    /\ solved.kind = "return"
    /\ Len(solved.path) = 3
    /\ start # end

\* C3 (as claimed): whenever a negative cycle is reachable from start the
\* solver raises NegativeCycleError, for every end and every key order; and on
\* the triangle of three -1 edges the error carries weight -3 and a cycle
\* through all three locations, for each start.
C3_AlwaysNegativeCycleError ==
    (op = "solver" /\ NegativeCycleReachable(graph, start))
    => /\ solved.kind = "NegativeCycleError"
       /\ IsNegativeTriangle(graph)
            => solved.weight = -3 /\ Range(solved.path) = Locs /\ Len(solved.path) = 4

\* C4: a NegativeCycleError carries a closed walk of the graph, the sum of its
\* edges' weights, and that weight is below zero.
C4_RaisedCycleIsNegativeClosedWalk ==
    (op = "solver" /\ solved.kind = "NegativeCycleError")
    => /\ Len(solved.path) >= 2
       /\ solved.path[1] = Last(solved.path)
       /\ IsWalk(graph, solved.path)
       /\ solved.weight = WalkWeight(graph, solved.path)
       /\ solved.weight < 0

\* C4 witness: the error raised with a cycle through three different locations.
C4_Witness ==
    /\ op = "solver"
    /\ solved.kind = "NegativeCycleError"
    /\ Len(solved.path) = 4
    /\ Cardinality(Range(solved.path)) = 3

\* C5: with no negative cycle reachable from start, NoShortestPathError is
\* raised exactly when no directed path leads from start to end.
C5_NoShortestPathIffUnreachable ==
    op = "solver"
    => Bind(Walks(graph, start), LAMBDA W :
            ~HasNegativeCycle(graph, W)
            => (solved.kind = "NoShortestPathError" <=> end \notin Ends(W)))

\* C5 witness: the error raised for an end that is a vertex of the graph, from
\* a start that has outgoing edges.
C5_Witness ==
    /\ op = "solver"
    /\ solved.kind = "NoShortestPathError"
    /\ HasKey(graph, start)
    /\ end \in all_vertices(graph)
    /\ ~NegativeCycleReachable(graph, start)

\* C6 (as claimed): a NegativeCycleError raised by a solver call made inside
\* potential_routes leaves potential_routes as a NegativeCycleError.
C6_NegativeCycleErrorPropagates ==
    (/\ op = "routes"
     /\ \E i \in 1..Len(routed.calls) : routed.calls[i].kind = "NegativeCycleError")
    => routed.kind = "NegativeCycleError"

\* C7 (as claimed): every route returned by potential_routes starts and ends
\* at the same location and walks only edges of the graph.
C7_RoutesAreClosedWalks ==
    (op = "routes" /\ routed.kind = "return")
    => \A i \in 1..Len(routed.rows) :
          /\ routed.rows[i].route[1] = Last(routed.rows[i].route)
          /\ IsWalk(graph, routed.rows[i].route)

\* The candidate (with the two paths that were joined) behind a returned row.
CandidateOf(row) == routed.all_routes[row.index]

\* C8 (as claimed): on a graph without negative cycles potential_routes
\* returns, and every returned route joins the outbound path to a turnaround t
\* with the return path from that same t back to the start, t being reachable
\* from the start and the start from t.
C8_TurnaroundPairedWithItsReturn ==
    (/\ op = "routes"
     /\ locs # <<>>
     /\ \A v \in Locs : ~NegativeCycleReachable(graph, v))
    => /\ routed.kind = "return"
       /\ \A i \in 1..Len(routed.rows) :
            LET c == CandidateOf(routed.rows[i])
            IN  /\ c.back[1] = Last(c.out)
                /\ Last(c.back) = c.out[1]
                /\ Last(c.out) \in ReachableFrom(graph, c.out[1])
                /\ c.out[1] \in ReachableFrom(graph, Last(c.out))

\* C9 (as claimed): the weight attached to a round trip (an outbound path
\* joined with the return path from its own turnaround) is the sum of the two
\* paths' weights divided by the number of legs of the route.
C9_NormalizedByLegs ==
    (op = "routes" /\ routed.kind = "return")
    => \A i \in 1..Len(routed.rows) :
          LET c == CandidateOf(routed.rows[i])
          IN  (c.back[1] = Last(c.out) /\ Len(c.route) >= 2)
              => routed.rows[i].weight =
                    Quotient(WalkWeight(graph, c.out) + WalkWeight(graph, c.back),
                             Len(c.route) - 1)

\* C10: the rows returned are candidates of positive weight, no two rows have
\* the same weight, and every positive weight among the candidates of all
\* starting locations is the weight of exactly one row.
C10_PositiveWeightsOnceEach ==
    (op = "routes" /\ routed.kind = "return")
    => /\ \A i \in 1..Len(routed.rows) :
            /\ routed.rows[i].weight.num > 0
            /\ routed.rows[i].index \in 1..Len(routed.all_routes)
            /\ CandidateOf(routed.rows[i]).weight = routed.rows[i].weight
            /\ CandidateOf(routed.rows[i]).route = routed.rows[i].route
       /\ \A i \in 1..Len(routed.rows), j \in 1..Len(routed.rows) :
            i # j => routed.rows[i].weight # routed.rows[j].weight
       /\ \A k \in 1..Len(routed.all_routes) :
            routed.all_routes[k].weight.num > 0
            => Cardinality({ i \in 1..Len(routed.rows) :
                                routed.rows[i].weight = routed.all_routes[k].weight }) = 1

\* C10 witness: two rows of different weight returned, from candidates that
\* hold a repeated positive weight and a weight that is not positive.
C10_Witness ==
    /\ op = "routes"
    /\ routed.kind = "return"
    /\ Len(routed.rows) >= 2
    /\ \E j \in 1..Len(routed.all_routes), k \in 1..Len(routed.all_routes) :
            /\ j < k
            /\ routed.all_routes[j].weight = routed.all_routes[k].weight
            /\ routed.all_routes[j].weight.num > 0
    /\ \E k \in 1..Len(routed.all_routes) : routed.all_routes[k].weight.num <= 0

\* C11: when no round trip is viable (no candidate of positive weight, or no
\* location at all), potential_routes returns normally with no route and
\* get_best_route raises nothing.
NoViableRoute ==
    /\ routed.kind \in {"return", "AttributeError"}
    /\ \A i \in 1..Len(routed.all_routes) : routed.all_routes[i].weight.num <= 0

C11_NoRouteIsNormalResult ==
    (op = "get_best_route" /\ NoViableRoute)
        => (routed.kind = "return" /\ routed.rows = <<>> /\ best.kind \notin {"AttributeError", "IndexError"})

\* The rows of a table or snapshot for one (location, good) pair.
RowsOfPair(frame, location, symbol) ==
    SelectSeq(frame, LAMBDA row : row.location = location /\ row.symbol = symbol)

C13_EmptyTableEmptySnapshot ==
    (op = "get_current_market" /\ market_db = <<>>)
        => (snapshot.kind = "return" /\ snapshot.rows = <<>>)

\* The row of the snapshot for a location and a good, as a set: empty or one row.
QuotedAt(location, symbol) ==
    { row \in Range(current_market) : row.location = location /\ row.symbol = symbol }

\* The candidates of all_trades from an origin to a destination.
CandidatesOf(frame, origin, destination) ==
    SelectSeq(frame, LAMBDA row : row.from_loc = origin /\ row.to_loc = destination)

\* C14: all_trades produces one candidate for every (origin, destination,
\* good) with origin # destination and the good quoted at both, its profit
\* the destination's sell price less the origin's purchase price, and no
\* candidate whose origin is its destination.
C14_CandidatesBetweenDistinctLocations ==
    (op = "trades" /\ traded.kind = "return")
        => /\ \A origin \in Locs, destination \in Locs, symbol \in Goods :
                \A from \in QuotedAt(origin, symbol), to \in QuotedAt(destination, symbol) :
                    origin # destination =>
                        LET found == SelectSeq(CandidatesOf(traded.rows, origin, destination),
                                               LAMBDA row : row.symbol = symbol)
                        IN  /\ Len(found) = 1
                            /\ found[1].profit = to.sellPricePerUnit - from.purchasePricePerUnit
           /\ \A i \in 1..Len(traded.rows) : traded.rows[i].from_loc # traded.rows[i].to_loc

\* C19: for every pair of locations, two at distance 0 among them, and every
\* ship speed, the flight time of a candidate is at least 59, so positive.
C19_FlightTimeAtLeastOverhead ==
    op = "trades"
        => \A i \in 1..Len(traded.rows) :
              /\ traded.rows[i].time_to_fly >= 59
              /\ traded.rows[i].time_to_fly > 0

\* Two locations at distance 0 and two at a distance whose flight time is
\* rounded from a half.
C19_Witness ==
    /\ op = "trades"
    /\ \E i \in 1..Len(traded.rows) :
        /\ traded.rows[i].from_loc # traded.rows[i].to_loc
        /\ traded.rows[i].distance = 0
        /\ traded.rows[i].time_to_fly = 59
    /\ \E i \in 1..Len(traded.rows) :
        /\ traded.rows[i].distance = 3
        /\ ship = 4
        /\ traded.rows[i].time_to_fly = 60

\* C20: a market row of unit volume 0 yields no candidate of infinite or
\* undefined score: all_trades rejects the table or leaves the row out.
C20_NoScoreFromZeroVolume ==
    op = "trades"
        => \A i \in 1..Len(traded.rows) :
              /\ traded.rows[i].volumePerUnit # 0
              /\ traded.rows[i].ctv.kind = "finite"

\* ctv >= ctv as floats compare: false when either is nan.
CtvGeq(a, b) == a.kind # "nan" /\ b.kind # "nan" /\ CtvLeq(b, a)

\* A row of a frame without its index label.
Unlabelled(row) == [row EXCEPT !.index = 0]

\* C15: for every ordered (origin, destination) pair with a candidate in
\* all_trades, best_trades has exactly one row, that row is one of the
\* pair's candidates and its ctv is at least that of every candidate of the
\* pair; a pair without candidate has no row.
C15_OneBestRowPerPair ==
    (op = "trades" /\ traded.kind = "return")
        => /\ bt.kind = "return"
           /\ \A origin \in Locs, destination \in Locs :
                LET candidates == CandidatesOf(traded.rows, origin, destination)
                    kept == CandidatesOf(bt.rows, origin, destination)
                IN  IF candidates = <<>> THEN kept = <<>>
                    ELSE /\ Len(kept) = 1
                         /\ \E i \in 1..Len(candidates) :
                                Unlabelled(candidates[i]) = Unlabelled(kept[1])
                         /\ \A i \in 1..Len(candidates) :
                                \/ Unlabelled(candidates[i]) = Unlabelled(kept[1])
                                \/ CtvGeq(kept[1].ctv, candidates[i].ctv)

\* C16: the graph of prepare_data_for_algorithm has an entry graph[o][d]
\* exactly when best_trades has a row from o to d, the entry is the transform
\* of that row's ctv, and there are as many entries as rows.
C16_EdgesAreTheBestTrades ==
    (op = "trades" /\ prepared.kind = "return")
        => /\ \A origin \in Locs, destination \in Locs :
                LET rows == CandidatesOf(bt.rows, origin, destination)
                IN  /\ is_edge(prepared.paths, origin, destination) <=> rows # <<>>
                    /\ \A i \in 1..Len(rows) :
                          EdgeWeight(prepared.paths, origin, destination) = set_value(rows[i].ctv)
           /\ NumEdges(prepared.paths) = Len(bt.rows)
           /\ \A i \in 1..Len(prepared.paths) : \A j \in 1..(i - 1) :
                prepared.paths[i][1] # prepared.paths[j][1]

\* Two origins, one of them with two destinations.
C16_Witness ==
    /\ op = "trades"
    /\ prepared.kind = "return"
    /\ Len(prepared.paths) >= 2
    /\ \E i \in 1..Len(prepared.paths) : Len(prepared.paths[i][2]) >= 2
    /\ Len(traded.rows) > Len(bt.rows)

\* What the Decimals are as numbers.  sign * ln(num / den) is the logarithm of
\* num / den or of den / num, the logarithm is increasing and is 0 at 1.
LnOf(d) == IF d.sign = 1 THEN [num |-> d.num, den |-> d.den] ELSE [num |-> d.den, den |-> d.num]

DecimalIsFinite(d) == d.kind = "ln"

DecimalSign(d) ==
    IF ~DecimalIsFinite(d) THEN d.sign
    ELSE IF LnOf(d).num > LnOf(d).den THEN 1
    ELSE IF LnOf(d).num < LnOf(d).den THEN -1
    ELSE 0

DecimalLess(a, b) ==
    IF ~DecimalIsFinite(a) THEN a.sign = -1 /\ (DecimalIsFinite(b) \/ b.sign = 1)
    ELSE IF ~DecimalIsFinite(b) THEN b.sign = 1
    ELSE LnOf(a).num * LnOf(b).den < LnOf(b).num * LnOf(a).den

\* The rows of best_trades of positive ctv, and those of ctv <= 0.
PositiveScores == { row \in Range(bt.rows) : IsPositive(row.ctv) }

LossScores ==
    { row \in Range(bt.rows) : row.ctv.kind = "-inf" \/ (row.ctv.kind = "finite" /\ row.ctv.num <= 0) }

WeightOf(row) == EdgeWeight(prepared.paths, row.from_loc, row.to_loc)

\* C17: the weight of a best edge of score s > 0 is negative when s > 1, zero
\* when s = 1, positive when s < 1, and strictly decreasing in s.
C17_WeightSignAndOrder ==
    (op = "trades" /\ prepared.kind = "return")
        => /\ \A row \in PositiveScores :
                LET s == row.ctv
                    above == s.kind = "inf" \/ s.num > s.den
                    below == s.kind = "finite" /\ s.num < s.den
                IN  DecimalSign(WeightOf(row)) = IF above THEN -1 ELSE IF below THEN 1 ELSE 0
           /\ \A row \in PositiveScores, other \in PositiveScores :
                (CtvLeq(row.ctv, other.ctv) /\ row.ctv # other.ctv)
                    => DecimalLess(WeightOf(other), WeightOf(row))

\* Best edges of score above 1, of score 1 and of score below 1 in one graph.
C17_Witness ==
    /\ op = "trades"
    /\ prepared.kind = "return"
    /\ \E row \in PositiveScores : row.ctv.kind = "finite" /\ row.ctv.num > row.ctv.den
    /\ \E row \in PositiveScores : row.ctv.num = row.ctv.den
    /\ \E row \in PositiveScores : row.ctv.kind = "finite" /\ row.ctv.num < row.ctv.den

\* C18 as stated: a best edge of score <= 0 gets a finite weight larger than
\* that of every edge of positive score, and no edge has an infinite weight.
C18_LossWeightFiniteAndLargest ==
    (op = "trades" /\ prepared.kind = "return")
        => /\ \A row \in LossScores :
                /\ DecimalIsFinite(WeightOf(row))
                /\ \A other \in PositiveScores : DecimalLess(WeightOf(other), WeightOf(row))
           /\ \A row \in Range(bt.rows) : DecimalIsFinite(WeightOf(row))

\* C18 amended: a best edge of score <= 0 gets the weight Infinity, larger
\* than the weight of every edge of positive score.
C18_LossWeightInfinite ==
    (op = "trades" /\ prepared.kind = "return")
        => \A row \in LossScores :
              /\ WeightOf(row).kind = "Infinity"
              /\ WeightOf(row).sign = 1
              /\ \A other \in PositiveScores : DecimalLess(WeightOf(other), WeightOf(row))

\* A loss-making edge, an edge of score 0 and a profitable edge in one graph.
C18_Witness ==
    /\ op = "trades"
    /\ prepared.kind = "return"
    /\ \E row \in LossScores : row.ctv.kind = "finite" /\ row.ctv.num < 0
    /\ \E row \in LossScores : row.ctv.kind = "finite" /\ row.ctv.num = 0
    /\ PositiveScores # {}

\* The guide has one leg for each pair of consecutive locations of the
\* route, in route order, leg i the one best edge from route[i] to route[i+1].
OneLegPerPair ==
    /\ guide.kind = "return"
    /\ Len(guide.rows) = Len(best.route) - 1
    /\ \A i \in 1..Len(guide.rows) :
        /\ guide.rows[i].from_loc = best.route[i]
        /\ guide.rows[i].to_loc = best.route[i + 1]
        /\ is_edge(graph, best.route[i], best.route[i + 1])
        /\ guide.rows[i].weight = EdgeWeight(graph, best.route[i], best.route[i + 1])

\* Each leg ends where the next begins and the last returns to the origin of
\* the first.
LegsClose ==
    /\ guide.rows # <<>>
    /\ \A i \in 1..(Len(guide.rows) - 1) : guide.rows[i].to_loc = guide.rows[i + 1].from_loc
    /\ Last(guide.rows).to_loc = guide.rows[1].from_loc

IsError(r) == r.raises = "" /\ "error" \in DOMAIN r.json

CodeOf(r) == r.json.error.code

IsSuccess(r) == r.raises = "" /\ "error" \notin DOMAIN r.json

Throttled(r) == IsError(r) /\ CodeOf(r) = 42901

Retried(r) == IsError(r) /\ CodeOf(r) \in {42901, 500, 409}

AllThrottled == \A k \in 1..Len(responses) : Throttled(responses[k])

\* C22: while every response to generic_api_call is the throttling error
\* 42901, the call has made at most 10 requests and has waited throttle_time
\* after each of them; it returns no value, and what it raises is
\* TooManyTriesException, after exactly 10 requests.
C22_ThrottledTenTimesThenRaises ==
    (op = "generic_api_call" /\ AllThrottled) =>
        /\ Len(responses) <= 10
        /\ slept = [k \in 1..Len(responses) |-> throttle_time]
        /\ returned.kind # "return"
        /\ returned.kind = "raise" =>
              /\ returned.type = "TooManyTriesException"
              /\ Len(responses) = 10
        /\ Len(responses) < 10 => returned.kind = "running"

C22_Witness ==
    /\ op = "generic_api_call"
    /\ AllThrottled
    /\ Len(responses) = 10
    /\ Len(slept) = 10
    /\ returned = Raise("TooManyTriesException")

C24_KnownErrorRaisesItsException ==
    IF op = "generic_api_call" /\ returned.kind \in {"return", "raise"} /\ Len(responses) >= 1
    THEN (IsError(Last(responses))
            /\ CodeOf(Last(responses)) \in {4109, 404, 4500, 4501, 4502, 4503, 4504, 4508, 4510, 4603})
         => register_new_agent(returned) = Raise(which_exception(CodeOf(Last(responses))))
    ELSE TRUE

\* C26: after k < 10 responses that are throttle or server errors the call
\* is still going, and a success after them ends it: the call has made
\* k + 1 requests and returns the JSON of the last one, or the response
\* itself when raw_res is set.
C26_SuccessAfterRetriesIsReturned ==
    op = "generic_api_call" =>
        /\ ((\A k \in 1..Len(responses) : Retried(responses[k])) /\ Len(responses) < 10)
              => returned.kind = "running"
        /\ IF Len(responses) >= 1 /\ IsSuccess(Last(responses))
           THEN /\ \A k \in 1..(Len(responses) - 1) : Retried(responses[k])
                /\ tries = Len(responses)
                /\ returned.kind = "return"
                /\ returned.type = IF raw_res THEN "Response" ELSE "dict"
                /\ returned.json = Last(responses).json
           ELSE TRUE

C26_Witness ==
    /\ op = "generic_api_call"
    /\ Len(responses) = 10
    /\ IsSuccess(Last(responses))
    /\ raw_res
    /\ {CodeOf(responses[k]) : k \in 1..9} = {42901, 500, 409}
    /\ returned = [kind |-> "return", type |-> "Response", json |-> Last(responses).json]

\* ---------------------------------------------------- ties of the snapshot

\* The index labels of the rows of a pair that share its greatest timestamp,
\* when there are two or more of them.
TiedLabels(location, symbol) ==
    LET observed == RowsOfPair(market_db, location, symbol)
        latest == { observed[i].index : i \in { i \in 1..Len(observed) :
                        \A j \in 1..Len(observed) :
                            to_datetime(observed[j].time) <= to_datetime(observed[i].time) } }
    IN  IF Cardinality(latest) >= 2 THEN latest ELSE {}

KeptLabel(location, symbol) == RowsOfPair(snapshot.rows, location, symbol)[1].index

\* C25: when two or more observations of a (location, good) pair share the
\* pair's greatest timestamp, get_current_market keeps the one that comes
\* last in the observation table.
C25_LastOfTiedIsKept ==
    (op = "get_current_market" /\ snapshot.kind = "return")
        => \A location \in Locations, symbol \in Goods :
              TiedLabels(location, symbol) # {}
                 => \A label \in TiedLabels(location, symbol) :
                        label <= KeptLabel(location, symbol)

\* C25, amended: of the observations that share the pair's greatest
\* timestamp, get_current_market keeps the one that comes first in the
\* observation table.
C25_FirstOfTiedIsKept ==
    (op = "get_current_market" /\ snapshot.kind = "return")
        => \A location \in Locations, symbol \in Goods :
              TiedLabels(location, symbol) # {}
                 => /\ KeptLabel(location, symbol) \in TiedLabels(location, symbol)
                    /\ \A label \in TiedLabels(location, symbol) :
                           KeptLabel(location, symbol) <= label

\* Three observations of one pair, the last two sharing the greatest time,
\* and the first of the two kept.
C25_Witness ==
    /\ op = "get_current_market"
    /\ snapshot.kind = "return"
    /\ \E location \in Locations, symbol \in Goods :
        /\ Len(RowsOfPair(market_db, location, symbol)) = 3
        /\ TiedLabels(location, symbol) = {1, 2}
        /\ KeptLabel(location, symbol) = 1

\* ------------------------------------------------------ the solver's loops

\* A closed walk of the graph of weight zero.
HasZeroCycle(g) ==
    \E v \in Locs : \E w \in Walks(g, v) :
        Len(w) >= 2 /\ Last(w) = v /\ WalkWeight(g, w) = 0

\* C27: the solver ends on every graph, start and end, by a return or by an
\* exception: walk_pred never meets a vertex twice before start, the path it
\* builds takes at most |V| steps along pred, and find_cycle, on the tail of
\* the edge the detection scan stops at, lists at most |V| nodes.
C27_SolverTerminates ==
    op = "solver" =>
        /\ solved.kind \in {"return", "NoShortestPathError", "NegativeCycleError", "TypeError"}
        /\ solved.kind = "return" => Len(solved.path) - 1 <= Cardinality(all_vertices(graph))
        /\ Bind(Relaxed(graph, start), LAMBDA st :
             Bind(ScanTails(st, graph, 1), LAMBDA hit :
                /\ hit.kind \in {"none", "relaxable"}
                /\ hit.kind = "none" <=> solved.kind \in {"return", "NoShortestPathError"}
                /\ hit.kind = "relaxable" =>
                      Len(find_cycle_nodes(st.pred, <<>>, hit.tail))
                         <= Cardinality(all_vertices(graph))))

\* A return along two edges of a cycle of weight zero.
C27_Witness ==
    /\ op = "solver"
    /\ solved.kind = "return"
    /\ Len(solved.path) = 3
    /\ HasZeroCycle(graph)

\* A vertex start cannot reach that lies on a closed walk of negative weight.
OnUnreachableNegativeCycle(g, from, v) ==
    /\ v \notin ReachableFrom(g, from)
    /\ \E w \in Walks(g, v) : Len(w) >= 2 /\ Last(w) = v /\ WalkWeight(g, w) < 0

\* C28: NegativeCycleError is raised only when a negative cycle is reachable
\* from start; with none reachable the solver raises no error but
\* NoShortestPathError for an end it cannot reach, and returns what it returns
\* on the graph without the origins start cannot reach, negative cycles among
\* them or not.
C28_OnlyReachableNegativeCycles ==
    op = "solver" =>
        Bind(Walks(graph, start), LAMBDA W :
            /\ solved.kind = "NegativeCycleError" => HasNegativeCycle(graph, W)
            /\ ~HasNegativeCycle(graph, W) =>
                  /\ solved.kind \in {"return", "NoShortestPathError"}
                  /\ solved.kind = "return" <=> end \in Ends(W)
                  /\ solved = shortest_path_bellman_ford(
                                 SelectSeq(graph, LAMBDA item : item[1] \in Ends(W)),
                                 start, end))

\* A path of one edge or more returned from a graph with a negative cycle
\* that start cannot reach.
C28_Witness ==
    /\ op = "solver"
    /\ solved.kind = "return"
    /\ Len(solved.path) >= 2
    /\ \E v \in Locs : OnUnreachableNegativeCycle(graph, start, v)

\* ------------------------------------------------------ the Api's clients

\* C29: after a generate_token that succeeded on an Api of the first API,
\* every sub-client of the Api is still a client object and its token is the
\* Api's new token.
C29_SubClientsCarryNewToken ==
    (~api.v2 /\ claims # <<>>) =>
        IF Last(claims).raises = "" /\ Last(claims).ok
        THEN /\ api.token = Last(claims).token
             /\ \A name \in SubClients :
                    /\ api.attrs[name].type = "Client"
                    /\ api.attrs[name].token = api.token
        ELSE TRUE

\* --------------------------------------------------- being on the best route

FromLocs(guide_rows) == { guide_rows[k].from_loc : k \in 1..Len(guide_rows) }

\* C30: am_i_on_best_route returns True only for two routes of the same
\* number of legs where every from-location of the current route is a
\* from-location of the best route.
C30_TrueOnlyIfAllFromLocsMatch ==
    (op = "am_i_on_best_route" /\ on_route.result)
        => /\ Len(on_route.current_route) = Len(on_route.best_route)
           /\ FromLocs(on_route.current_route) \subseteq FromLocs(on_route.best_route)

====
